---- MODULE Spec2Model ----
(***************************************************************************)
(* TERMINATOR Telegram bot (webhook mode): the text-message handler, the   *)
(* detached reply pipeline and generateAIResponse of src/unnamed/part_000, *)
(* with the persistence store (groups, users, chat_memory, bot_logs), the  *)
(* language model and the Telegram transport as the environment.           *)
(*                                                                         *)
(* One step of the model is one run-to-completion piece of JavaScript: the *)
(* synchronous handler, or the continuation that runs when an awaited call *)
(* settles, or the store applying one request that nobody awaits.          *)
(***************************************************************************)
EXTENDS Integers, Sequences, FiniteSets, Bags, TLC

\* ------------------------------------------------------------------ bounds
MaxEvents == 2      \* inbound updates delivered to the webhook in one run
MaxTicks == 1       \* days the clock may advance during one run
MaxHist == 3        \* longest history handed to the transcript builder alone

\* ------------------------------------------------------- program constants
OWNER_ID == 1                   \* Number(process.env.TERMINATOR_OWNER_ID || 0)
BOT_ID == 900                   \* ctx.botInfo.id
RETENTION_DAYS == 7             \* sevenDaysAgo.setDate(getDate() - 7)
TRIGGER == "terminator"
SEPARATOR == "\n\n"
OFFLINE_REPLY == "System Offline: AI core not initialized."
DEBUG_PREFIX ==
    "Error processing query. My neural net is temporarily disrupted.\n\n[DEBUG REASON]: "
\* faulty variant: the persona starts out empty
EMPTY_PERSONA ==
    [tone |-> "", aggression_level |-> 0, response_style |-> "", custom_phrases |-> <<>>]

DEFAULT_PERSONA ==
    [tone |-> "cold", aggression_level |-> 5, response_style |-> "military",
     custom_phrases |-> <<>>]
DEFAULT_USER_INFO == [risk_score |-> 0, status |-> "active"]

None == "none"                  \* a text not yet assigned
Absent == [absent |-> TRUE]     \* an object not yet assigned

\* ------------------------------------------------------------ environment
StartTime == RETENTION_DAYS     \* the clock (in days) when the process starts

Events == 1..MaxEvents
Senders == {[id |-> OWNER_ID, username |-> "boss"], [id |-> OWNER_ID + 1, username |-> ""]}
\* a one-to-one chat, a group whose stored GroupConfig has ai_mode 0, and a
\* group with no stored GroupConfig
PrivateChat == [id |-> OWNER_ID + 1, type |-> "private"]
GroupOptedOut == [id |-> 0 - 1, type |-> "supergroup"]
GroupNew == [id |-> 0 - 2, type |-> "group"]
\* reply_to_message?.from?.id: nothing (0), this bot, or another bot
NoReply == 0 * BOT_ID
OtherBot == BOT_ID + 1

\* An inbound text update as the handler reads it from ctx.
Update(chat, from_id, text, reply_to) ==
    [chat |-> chat, from |-> CHOOSE s \in Senders : s.id = from_id, text |-> text,
     reply_to |-> reply_to]

\* The updates that arrive. In a private chat: a trigger text, and /start. In
\* a group: plain text replying to nothing and to another bot (ignored),
\* /start replying to this bot (taken by bot.start), plain text replying to
\* this bot (from the owner), a trigger text replying to another bot (from a
\* member), a trigger text in the group that opted out, and a message without
\* text (ctx.message.text and caption both missing) replying to this bot.
Updates ==
    {Update(PrivateChat, OWNER_ID + 1, "Terminator hi", BOT_ID),
     Update(PrivateChat, OWNER_ID + 1, "/start", NoReply),
     Update(GroupNew, OWNER_ID + 1, "hi", NoReply),
     Update(GroupNew, OWNER_ID + 1, "hi terminator", OtherBot),
     Update(GroupNew, OWNER_ID + 1, "/start", BOT_ID),
     Update(GroupNew, OWNER_ID, "d", BOT_ID),
     Update(GroupNew, OWNER_ID + 1, "TERMINATOR", OtherBot),
     Update(GroupOptedOut, OWNER_ID, "Terminator hi", BOT_ID),
     Update(GroupNew, OWNER_ID, "", BOT_ID)}

\* What model.generateContent may do: return text (possibly none), or throw.
ModelOutcomes == {[ok |-> TRUE, text |-> "Affirmative."],
                  [ok |-> TRUE, text |-> ""],
                  [ok |-> FALSE, text |-> "503 overloaded"]}

\* The persona row and the rows the stores hold when the process starts.
STORED_PERSONA ==
    [tone |-> "warm", aggression_level |-> 9, response_style |-> "casual",
     custom_phrases |-> <<"hasta la vista">>]
InitialGroups == {[group_id |-> GroupOptedOut.id, ai_mode |-> 0]}
InitialUsers == {[user_id |-> OWNER_ID + 1, username |-> "Unknown", risk_score |-> 8,
                  status |-> "flagged"]}
InitialMemory ==
    << [id |-> 1, user_id |-> OWNER_ID, role |-> "user", content |-> "a",
        created_at |-> StartTime - RETENTION_DAYS],
       [id |-> 2, user_id |-> OWNER_ID, role |-> "user", content |-> "b",
        created_at |-> StartTime - RETENTION_DAYS + 1],
       [id |-> 3, user_id |-> OWNER_ID, role |-> "model", content |-> "c",
        created_at |-> StartTime - RETENTION_DAYS + 1] >>
\* Column defaults of rows the program inserts without naming the column.
DbDefaultAiMode == 1
DbDefaultUserInfo == DEFAULT_USER_INFO

\* ------------------------------------------------------------ text helpers
Lower(c) ==
    CASE c = "T" -> "t" [] c = "E" -> "e" [] c = "R" -> "r" [] c = "M" -> "m"
      [] c = "I" -> "i" [] c = "N" -> "n" [] c = "A" -> "a" [] c = "O" -> "o"
      [] c = "H" -> "h" [] c = "S" -> "s"
      [] OTHER -> c

RECURSIVE ToLowerCase(_)
ToLowerCase(s) ==
    IF Len(s) = 0 THEN ""
    ELSE Lower(SubSeq(s, 1, 1)) \o ToLowerCase(SubSeq(s, 2, Len(s)))

StartsWith(s, p) == Len(s) >= Len(p) /\ SubSeq(s, 1, Len(p)) = p
EndsWith(s, p) == Len(s) >= Len(p) /\ SubSeq(s, Len(s) - Len(p) + 1, Len(s)) = p

\* ------------------------------------------------------ transcript builder
Turn(role, text) == [role |-> role, parts |-> <<[text |-> text]>>]

\* faulty variant: every record becomes an entry of its own
PushAlways(contents, role, content) == Append(contents, Turn(role, content))

\* faulty variant: merged text is joined by one newline only
MergeSingleNewline(contents, role, content) ==
    IF Len(contents) > 0 /\ contents[Len(contents)].role = role
    THEN [contents EXCEPT ![Len(contents)].parts[1].text = @ \o "\n" \o content]
    ELSE Append(contents, Turn(role, content))

\* One iteration of the merge loop, and the same rule for the new text.
MergeOrPush(contents, role, content) ==
    IF Len(contents) > 0 /\ contents[Len(contents)].role = role
    THEN [contents EXCEPT ![Len(contents)].parts[1].text = @ \o SEPARATOR \o content]
    ELSE Append(contents, Turn(role, content))

RECURSIVE MergeHistory(_, _)
MergeHistory(contents, history) ==
    IF history = <<>> THEN contents
    ELSE MergeHistory(MergeOrPush(contents, Head(history).role, Head(history).content),
                      Tail(history))

\* faulty variant: the new text is left to the stored turn
BuildContentsHistoryOnly(history, text) == MergeHistory(<<>>, history)

\* contents as generateAIResponse submits it for `history` and the new `text`
BuildContents(history, text) == MergeOrPush(MergeHistory(<<>>, history), "user", text)

\* ------------------------------------------------------------------ state
VARIABLES
    supabase,       \* the persistence client exists (SUPABASE_URL and SUPABASE_KEY set)
    model,          \* the Gemini model handle exists (GEMINI_API_KEY set)
    dbUp,           \* the persistence service answers requests with data
    now,            \* the clock, in days
    groups,         \* table groups: set of rows
    users,          \* table users: set of rows
    chat_memory,    \* table chat_memory: rows in created_at order
    bot_logs,       \* table bot_logs: bag of rows
    serial,         \* next chat_memory id
    ev,             \* ev[e]: the update of event e (ctx), Absent before it arrives
    pc,             \* pc[e]: the await at which the task of event e is suspended
    cutoff,         \* cutoff[e]: sevenDaysAgo of the running generateAIResponse
    request,        \* request[e]: the generateContent request in flight
    reply,          \* reply[e]: the text handed to ctx.reply
    pending,        \* store requests issued and not awaited, not yet applied
    trace,          \* trace[e]: the calls event e issued and saw settle, in order
    fetched,        \* fetched[e]: ids of the turns the history select returned
    deleted,        \* deleted[e]: ids of the turns the retention delete removed
    outbox,         \* outbox[e]: the sendMessage calls made for event e
    result,         \* result[e]: what generateContent did, once per invocation
    tb              \* the transcript builder run on its own: input and output

vars == <<supabase, model, dbUp, now, groups, users, chat_memory, bot_logs, serial,
          ev, pc, cutoff, request, reply, pending, trace, fetched, deleted, outbox,
          result, tb>>

config == <<supabase, model, dbUp>>
tables == <<groups, users, chat_memory, bot_logs, serial>>

\* ------------------------------------------------------------ the handler
\* bot.start matches a text that is the /start command.
IsStartCommand(u) == StartsWith(u.text, "/start")

\* faulty variant: nobody is the owner
RoleAlwaysMember(u) == "member"

\* const role = userId === OWNER_ID ? "owner" : "member"
Role(u) == IF u.from.id = OWNER_ID THEN "owner" ELSE "member"

\* faulty variant: a reply to any account counts
IsReplyToAnyone(u) == u.reply_to # NoReply

\* ctx.message.reply_to_message?.from?.id === botId
IsReplyToMe(u) == u.reply_to = BOT_ID
StartsWithTrigger(u) == StartsWith(ToLowerCase(u.text), TRIGGER)

\* faulty variant: a message without text is not turned away
TriggeredWithoutText(u) ==
    /\ u.chat.type # "private"
    /\ (StartsWithTrigger(u) \/ IsReplyToMe(u))

\* The handler goes on past its three early returns.
Triggered(u) ==
    /\ u.chat.type # "private"
    /\ u.text # ""
    /\ (StartsWithTrigger(u) \/ IsReplyToMe(u))

\* The system instruction, by the values interpolated into it.
SystemPrompt(persona, userInfo, role) ==
    [tone |-> persona.tone, aggression_level |-> persona.aggression_level,
     response_style |-> persona.response_style,
     custom_phrases |-> persona.custom_phrases,
     role |-> role, risk_score |-> userInfo.risk_score, status |-> userInfo.status]

SendMessage(kind, text) == [kind |-> kind, text |-> text]

\* faulty variant: the model is called without waiting for the three selects
EnterGenerateNoWait(e, u, tr, post) ==
    IF ~model
    THEN /\ pc' = [pc EXCEPT ![e] = "deliver"]
         /\ reply' = [reply EXCEPT ![e] = OFFLINE_REPLY]
         /\ outbox' = [outbox EXCEPT ![e] = Append(@, SendMessage("reply", OFFLINE_REPLY))]
         /\ trace' = [trace EXCEPT ![e] = tr \o <<"reply">> \o post]
         /\ UNCHANGED <<cutoff, request>>
    ELSE /\ pc' = [pc EXCEPT ![e] = "generate"]
         /\ cutoff' = [cutoff EXCEPT ![e] = now - RETENTION_DAYS]
         /\ request' = [request EXCEPT ![e] =
                [systemInstruction |-> SystemPrompt(DEFAULT_PERSONA, DEFAULT_USER_INFO, Role(u)),
                 contents |-> BuildContents(<<>>, u.text),
                 got |-> {}]]
         /\ trace' = [trace EXCEPT ![e] =
                tr \o (IF supabase THEN <<"context">> ELSE <<>>) \o <<"generate">> \o post]
         /\ UNCHANGED <<reply, outbox>>

\* generateAIResponse from its call to its first await, and, when it returns
\* at once, the caller up to ctx.reply. `tr` is the trace so far and `post`
\* what the caller does after the task is suspended.
EnterGenerate(e, u, tr, post) ==
    IF ~model
    THEN /\ pc' = [pc EXCEPT ![e] = "deliver"]
         /\ reply' = [reply EXCEPT ![e] = OFFLINE_REPLY]
         /\ outbox' = [outbox EXCEPT ![e] = Append(@, SendMessage("reply", OFFLINE_REPLY))]
         /\ trace' = [trace EXCEPT ![e] = tr \o <<"reply">> \o post]
         /\ UNCHANGED <<cutoff, request>>
    ELSE IF supabase
    THEN /\ pc' = [pc EXCEPT ![e] = "context"]
         /\ cutoff' = [cutoff EXCEPT ![e] = now - RETENTION_DAYS]
         /\ trace' = [trace EXCEPT ![e] = tr \o <<"context">> \o post]
         /\ UNCHANGED <<reply, outbox, request>>
    ELSE /\ pc' = [pc EXCEPT ![e] = "generate"]
         /\ cutoff' = [cutoff EXCEPT ![e] = now - RETENTION_DAYS]
         /\ request' = [request EXCEPT ![e] =
                [systemInstruction |-> SystemPrompt(DEFAULT_PERSONA, DEFAULT_USER_INFO, Role(u)),
                 contents |-> BuildContents(<<>>, u.text),
                 got |-> {}]]
         /\ trace' = [trace EXCEPT ![e] = tr \o <<"generate">> \o post]
         /\ UNCHANGED <<reply, outbox>>

Arrives(e) == pc[e] = "idle" /\ \A d \in Events : d < e => pc[d] # "idle"

\* bot.start: greets in a private chat, swallows the command elsewhere.
Start(e, u) ==
    /\ Arrives(e)
    /\ IsStartCommand(u)
    /\ ev' = [ev EXCEPT ![e] = u]
    /\ IF u.chat.type # "private"
       THEN /\ pc' = [pc EXCEPT ![e] = "done"]
            /\ trace' = [trace EXCEPT ![e] = <<"ack">>]
            /\ UNCHANGED outbox
       ELSE /\ pc' = [pc EXCEPT ![e] = "greet"]
            /\ trace' = [trace EXCEPT ![e] = <<"greeting">>]
            /\ outbox' = [outbox EXCEPT ![e] = <<SendMessage("greeting", "Add me in your group")>>]
    /\ UNCHANGED <<config, now, tables, cutoff, request, reply, pending, fetched, deleted, result, tb>>

\* await ctx.reply(...) of bot.start settles; the handler returns.
StartReplied(e) ==
    /\ pc[e] = "greet"
    /\ pc' = [pc EXCEPT ![e] = "done"]
    /\ trace' = [trace EXCEPT ![e] = @ \o <<"greeting:done", "ack">>]
    /\ UNCHANGED <<config, now, tables, ev, cutoff, request, reply, pending, fetched,
                   deleted, outbox, result, tb>>

\* faulty variant: the handler awaits the task before it returns
AckWhenTaskEnds == FALSE

\* The task is started and not awaited: the handler returns at its first await.
AckAtFirstAwait == TRUE

AckNow == IF AckAtFirstAwait THEN <<"ack">> ELSE <<>>
AckLate == IF AckAtFirstAwait THEN <<>> ELSE <<"ack">>

\* bot.on("text"): the three early returns, the typing action, the detached
\* task up to its first await, and the return to the transport.
OnText(e, u) ==
    /\ Arrives(e)
    /\ ~IsStartCommand(u)
    /\ ev' = [ev EXCEPT ![e] = u]
    /\ IF ~Triggered(u)
       THEN /\ pc' = [pc EXCEPT ![e] = "done"]
            /\ trace' = [trace EXCEPT ![e] = <<"ack">>]
            /\ UNCHANGED <<cutoff, request, reply, outbox>>
       ELSE IF supabase
       THEN /\ pc' = [pc EXCEPT ![e] = "group_select"]
            /\ trace' = [trace EXCEPT ![e] = <<"typing", "group_select">> \o AckNow]
            /\ UNCHANGED <<cutoff, request, reply, outbox>>
       ELSE EnterGenerate(e, u, <<"typing">>, AckNow)
    /\ UNCHANGED <<config, now, tables, pending, fetched, deleted, result, tb>>

\* ---------------------------------------------------------- the store
\* .eq(column, value).maybeSingle(): the row, or no data when the service fails.
GroupRow(group_id) == IF dbUp THEN {r \in groups : r.group_id = group_id} ELSE {}
UserRow(user_id) == IF dbUp THEN {r \in users : r.user_id = user_id} ELSE {}

\* faulty variant: the history select leaves out the turn at the cutoff itself
InWindowStrict(row, user_id, since) == row.user_id = user_id /\ row.created_at > since

\* faulty variant: the history select is not restricted to the user
InWindowAnyUser(row, user_id, since) == row.created_at >= since

\* .eq("user_id", userId).gte("created_at", sevenDaysAgo)
InWindow(row, user_id, since) == row.user_id = user_id /\ row.created_at >= since

\* faulty variant: the retention delete takes the turn at the cutoff too
ExpiredInclusive(row, user_id, before) == row.user_id = user_id /\ row.created_at <= before

\* .lt("created_at", sevenDaysAgo).eq("user_id", userId)
Expired(row, user_id, before) == row.user_id = user_id /\ row.created_at < before

\* The rows of a table (a sequence) that satisfy Keep(row), in order.
RECURSIVE SelectSeq2(_, _, _, _)
SelectSeq2(rows, user_id, t, which) ==
    IF rows = <<>> THEN <<>>
    ELSE LET r == Head(rows)
             hit == IF which = "window" THEN InWindow(r, user_id, t)
                    ELSE ~Expired(r, user_id, t)
         IN (IF hit THEN <<r>> ELSE <<>>) \o SelectSeq2(Tail(rows), user_id, t, which)

\* select role, content ... order by created_at ascending
HistoryOf(user_id, since) == SelectSeq2(chat_memory, user_id, since, "window")
\* chat_memory after delete ... where created_at < before and user_id = ...
AfterDelete(user_id, before) == SelectSeq2(chat_memory, user_id, before, "keep")

Ids(rows) == {rows[i].id : i \in 1..Len(rows)}

\* ------------------------------------------------------------ the task
Finish(tr) == tr \o AckLate

\* faulty variant: no data from the lookup counts as disabled
GroupDisabledOrUnknown(groupData) ==
    groupData = {} \/ (CHOOSE r \in groupData : TRUE).ai_mode = 0

\* faulty variant: the flag is not looked at
GroupNeverDisabled(groupData) == FALSE

\* if (groupData && groupData.ai_mode === 0) return
GroupDisabled(groupData) ==
    groupData # {} /\ (CHOOSE r \in groupData : TRUE).ai_mode = 0

\* await groups.select('ai_mode').eq('group_id', groupId).maybeSingle() settles.
GroupSelected(e) ==
    /\ pc[e] = "group_select"
    /\ LET groupData == GroupRow(ev[e].chat.id)
           tr == trace[e] \o <<"group_select:done">>
       IN IF GroupDisabled(groupData)
          THEN /\ pc' = [pc EXCEPT ![e] = "done"]
               /\ trace' = [trace EXCEPT ![e] = Finish(tr)]
          ELSE IF groupData = {}
          THEN /\ pc' = [pc EXCEPT ![e] = "group_insert"]
               /\ trace' = [trace EXCEPT ![e] = tr \o <<"group_insert">>]
          ELSE /\ pc' = [pc EXCEPT ![e] = "user_select"]
               /\ trace' = [trace EXCEPT ![e] = tr \o <<"user_select">>]
    /\ UNCHANGED <<config, now, tables, ev, cutoff, request, reply, pending, fetched,
                   deleted, outbox, result, tb>>

\* faulty variant: an insert refused as a duplicate ends the task
GroupInsertedAbortsOnDuplicate(e) ==
    /\ pc[e] = "group_insert"
    /\ IF dbUp /\ \E r \in groups : r.group_id = ev[e].chat.id
       THEN /\ pc' = [pc EXCEPT ![e] = "done"]
            /\ trace' = [trace EXCEPT ![e] = Finish(@ \o <<"group_insert:done">>)]
            /\ groups' = groups
       ELSE /\ groups' = IF dbUp
                         THEN groups \cup {[group_id |-> ev[e].chat.id, ai_mode |-> DbDefaultAiMode]}
                         ELSE groups
            /\ pc' = [pc EXCEPT ![e] = "user_select"]
            /\ trace' = [trace EXCEPT ![e] = @ \o <<"group_insert:done", "user_select">>]
    /\ UNCHANGED <<config, now, users, chat_memory, bot_logs, serial, ev, cutoff, request,
                   reply, pending, fetched, deleted, outbox, result, tb>>

\* await groups.insert([{ group_id }]) settles: the row is there unless the
\* service failed (a second row for the same group is refused).
GroupInserted(e) ==
    /\ pc[e] = "group_insert"
    /\ groups' = IF dbUp /\ \A r \in groups : r.group_id # ev[e].chat.id
                 THEN groups \cup {[group_id |-> ev[e].chat.id, ai_mode |-> DbDefaultAiMode]}
                 ELSE groups
    /\ pc' = [pc EXCEPT ![e] = "user_select"]
    /\ trace' = [trace EXCEPT ![e] = @ \o <<"group_insert:done", "user_select">>]
    /\ UNCHANGED <<config, now, users, chat_memory, bot_logs, serial, ev, cutoff, request,
                   reply, pending, fetched, deleted, outbox, result, tb>>

\* await users.select('user_id').eq('user_id', userId).maybeSingle() settles.
UserSelected(e) ==
    /\ pc[e] = "user_select"
    /\ LET tr == trace[e] \o <<"user_select:done">>
       IN IF UserRow(ev[e].from.id) = {}
          THEN /\ pc' = [pc EXCEPT ![e] = "user_insert"]
               /\ trace' = [trace EXCEPT ![e] = tr \o <<"user_insert">>]
               /\ UNCHANGED <<cutoff, request, reply, outbox>>
          ELSE EnterGenerate(e, ev[e], tr, <<>>)
    /\ UNCHANGED <<config, now, tables, ev, pending, fetched, deleted, result, tb>>

\* await users.insert([{ user_id, username }]) settles; generateAIResponse is called.
UserInserted(e) ==
    /\ pc[e] = "user_insert"
    /\ users' = IF dbUp /\ \A r \in users : r.user_id # ev[e].from.id
                THEN users \cup
                     {[user_id |-> ev[e].from.id,
                       username |-> IF ev[e].from.username # "" THEN ev[e].from.username
                                    ELSE "Unknown",
                       risk_score |-> DbDefaultUserInfo.risk_score,
                       status |-> DbDefaultUserInfo.status]}
                ELSE users
    /\ EnterGenerate(e, ev[e], trace[e] \o <<"user_insert:done">>, <<>>)
    /\ UNCHANGED <<config, now, groups, chat_memory, bot_logs, serial, ev, pending,
                   fetched, deleted, result, tb>>

Ops(reqs) ==
    (IF \E r \in reqs : r.op = "insert_user" THEN <<"insert_user">> ELSE <<>>)
    \o (IF \E r \in reqs : r.op = "insert_model" THEN <<"insert_model">> ELSE <<>>)
    \o (IF \E r \in reqs : r.op = "delete" THEN <<"delete">> ELSE <<>>)

\* faulty variant: the inbound turn is not saved here
InboundSaveSkipped(e) == {}

\* chat_memory.insert([{ user_id, role: "user", content: text }]).then(...)
InboundSave(e) ==
    {[e |-> e, op |-> "insert_user", user_id |-> ev[e].from.id, role |-> "user",
      content |-> ev[e].text]}

\* faulty variant: the delete computes its cutoff when it is sent
OutboundSavesFreshCutoff(e, replyText) ==
    {[e |-> e, op |-> "insert_model", user_id |-> ev[e].from.id, role |-> "model",
      content |-> replyText],
     [e |-> e, op |-> "delete", user_id |-> ev[e].from.id,
      before |-> now - RETENTION_DAYS]}

\* chat_memory.insert([{ user_id, role: "model", content: replyText }]).then(...)
\* chat_memory.delete().lt("created_at", sevenDaysAgo).eq("user_id", userId).then(...)
OutboundSaves(e, replyText) ==
    {[e |-> e, op |-> "insert_model", user_id |-> ev[e].from.id, role |-> "model",
      content |-> replyText],
     [e |-> e, op |-> "delete", user_id |-> ev[e].from.id, before |-> cutoff[e]]}

\* faulty variant: a failed invocation yields no text
ReplyTextNoneOnFailure(o) == IF o.ok THEN o.text ELSE ""

\* faulty variant: the failure reason is left out of the reply
ReplyWithoutReason(o) == IF o.ok THEN o.text ELSE DEBUG_PREFIX

\* return replyText, or the diagnostic reply of the catch block
ReplyText(o) == IF o.ok THEN o.text ELSE DEBUG_PREFIX \o o.text

\* The three selects of Promise.all settle: history, persona and user info are
\* taken (or left at their defaults), the history is merged into contents, the
\* inbound turn is sent to the store without awaiting it, the new text is added
\* and generateContent is called.
ContextFetched(e) ==
    /\ pc[e] = "context"
    /\ LET u == ev[e]
           history == IF dbUp THEN HistoryOf(u.from.id, cutoff[e]) ELSE <<>>
           botPersona == IF dbUp THEN STORED_PERSONA ELSE DEFAULT_PERSONA
           userData == UserRow(u.from.id)
           userInfo == IF userData # {}
                       THEN LET r == CHOOSE r \in userData : TRUE
                            IN [risk_score |-> r.risk_score, status |-> r.status]
                       ELSE DEFAULT_USER_INFO
       IN /\ request' = [request EXCEPT ![e] =
                 [systemInstruction |-> SystemPrompt(botPersona, userInfo, Role(u)),
                  contents |-> BuildContents(history, u.text),
                  got |-> (IF dbUp THEN {"memory", "persona"} ELSE {})
                          \cup (IF userData # {} THEN {"user"} ELSE {})]]
          /\ fetched' = [fetched EXCEPT ![e] = Ids(history)]
          /\ pending' = pending \cup InboundSave(e)
    /\ pc' = [pc EXCEPT ![e] = "generate"]
    /\ trace' = [trace EXCEPT ![e] =
           @ \o <<"context:done">> \o Ops(InboundSave(e)) \o <<"generate">>]
    /\ UNCHANGED <<config, now, tables, ev, cutoff, reply, deleted, outbox, result, tb>>

\* faulty variant: whatever is returned to the caller is stored as the model's turn
ModelSettledStoresAnyReply(e, o) ==
    /\ pc[e] = "generate"
    /\ LET text == ReplyText(o)
           saves == IF supabase THEN OutboundSaves(e, text) ELSE {}
           tr == trace[e] \o <<IF o.ok THEN "generate:done" ELSE "generate:failed">>
                    \o Ops(saves)
       IN /\ reply' = [reply EXCEPT ![e] = text]
          /\ pending' = pending \cup saves
          /\ IF text # ""
             THEN /\ pc' = [pc EXCEPT ![e] = "deliver"]
                  /\ outbox' = [outbox EXCEPT ![e] = Append(@, SendMessage("reply", text))]
                  /\ trace' = [trace EXCEPT ![e] = tr \o <<"reply">>]
             ELSE /\ pc' = [pc EXCEPT ![e] = "done"]
                  /\ outbox' = outbox
                  /\ trace' = [trace EXCEPT ![e] = Finish(tr)]
    /\ request' = [request EXCEPT ![e] = Absent]
    /\ result' = [result EXCEPT ![e] = Append(@, o)]
    /\ UNCHANGED <<config, now, tables, ev, cutoff, fetched, deleted, tb>>

\* await model.generateContent(...) settles with outcome o. On success the
\* outbound turn and the retention delete are sent to the store without
\* awaiting them; the caller then hands a non-empty reply to ctx.reply.
ModelSettled(e, o) ==
    /\ pc[e] = "generate"
    /\ LET text == ReplyText(o)
           saves == IF o.ok /\ supabase THEN OutboundSaves(e, text) ELSE {}
           tr == trace[e] \o <<IF o.ok THEN "generate:done" ELSE "generate:failed">>
                    \o Ops(saves)
       IN /\ reply' = [reply EXCEPT ![e] = text]
          /\ pending' = pending \cup saves
          /\ IF text # ""
             THEN /\ pc' = [pc EXCEPT ![e] = "deliver"]
                  /\ outbox' = [outbox EXCEPT ![e] = Append(@, SendMessage("reply", text))]
                  /\ trace' = [trace EXCEPT ![e] = tr \o <<"reply">>]
             ELSE /\ pc' = [pc EXCEPT ![e] = "done"]
                  /\ outbox' = outbox
                  /\ trace' = [trace EXCEPT ![e] = Finish(tr)]
    /\ request' = [request EXCEPT ![e] = Absent]
    /\ result' = [result EXCEPT ![e] = Append(@, o)]
    /\ UNCHANGED <<config, now, tables, ev, cutoff, fetched, deleted, tb>>

\* The usage log row of event e.
LogRow(e) ==
    [event_type |-> "ai_reply",
     details |-> [user_id |-> ev[e].from.id, group_id |-> ev[e].chat.id, text |-> ev[e].text]]

\* faulty variant: the usage log row is written only for a reply that was sent
ReplySettledLogsOnlySent(e, sentOk) ==
    /\ pc[e] = "deliver"
    /\ pc' = [pc EXCEPT ![e] = "done"]
    /\ bot_logs' = IF supabase /\ dbUp /\ sentOk
                   THEN bot_logs (+) SetToBag({LogRow(e)}) ELSE bot_logs
    /\ trace' = [trace EXCEPT ![e] =
           Finish(@ \o <<IF sentOk THEN "reply:done" ELSE "reply:failed">>
                    \o (IF supabase /\ sentOk THEN <<"log">> ELSE <<>>))]
    /\ UNCHANGED <<config, now, groups, users, chat_memory, serial, ev, cutoff, request,
                   reply, pending, fetched, deleted, outbox, result, tb>>

\* await ctx.reply(...).catch(...) settles, sent or not; the usage log row is
\* sent to the store without awaiting it and the task ends. Nothing reads
\* bot_logs, so the store's handling of the row is part of this step.
ReplySettled(e, sentOk) ==
    /\ pc[e] = "deliver"
    /\ pc' = [pc EXCEPT ![e] = "done"]
    /\ bot_logs' = IF supabase /\ dbUp THEN bot_logs (+) SetToBag({LogRow(e)}) ELSE bot_logs
    /\ trace' = [trace EXCEPT ![e] =
           Finish(@ \o <<IF sentOk THEN "reply:done" ELSE "reply:failed">>
                    \o (IF supabase THEN <<"log">> ELSE <<>>))]
    /\ UNCHANGED <<config, now, groups, users, chat_memory, serial, ev, cutoff, request,
                   reply, pending, fetched, deleted, outbox, result, tb>>

\* The store handles a request nobody awaits; its .then callback only logs.
StoreApplies(r) ==
    /\ r \in pending
    /\ pending' = pending \ {r}
    /\ IF ~dbUp
       THEN UNCHANGED <<tables, deleted>>
       ELSE CASE r.op \in {"insert_user", "insert_model"} ->
                    /\ chat_memory' = Append(chat_memory,
                           [id |-> serial, user_id |-> r.user_id, role |-> r.role,
                            content |-> r.content, created_at |-> now])
                    /\ serial' = serial + 1
                    /\ UNCHANGED <<groups, users, bot_logs, deleted>>
              [] r.op = "delete" ->
                    /\ chat_memory' = AfterDelete(r.user_id, r.before)
                    /\ deleted' = [deleted EXCEPT ![r.e] =
                           Ids(chat_memory) \ Ids(AfterDelete(r.user_id, r.before))]
                    /\ UNCHANGED <<groups, users, bot_logs, serial>>
    /\ UNCHANGED <<config, now, ev, pc, cutoff, request, reply, trace, fetched, outbox, result, tb>>

\* A day passes.
Tick ==
    /\ now < StartTime + MaxTicks
    /\ now' = now + 1
    /\ UNCHANGED <<config, tables, ev, pc, cutoff, request, reply, pending, trace,
                   fetched, deleted, outbox, result, tb>>

\* The transcript builder applied to an input of its own.
Build ==
    /\ ~tb.built
    /\ tb' = [tb EXCEPT !.built = TRUE, !.out = BuildContents(tb.history, tb.text)]
    /\ UNCHANGED <<config, now, tables, ev, pc, cutoff, request, reply, pending, trace,
                   fetched, deleted, outbox, result>>

\* ------------------------------------------------------- specifications
NoRun == [history |-> <<>>, text |-> "", built |-> FALSE, out |-> <<>>]

\* The process after start-up, with the events in `arriving` still to come.
Started(arriving) ==
    /\ supabase \in BOOLEAN
    /\ model \in BOOLEAN
    /\ dbUp \in {b \in BOOLEAN : b => supabase}
    /\ now = StartTime
    /\ groups = InitialGroups
    /\ users = InitialUsers
    /\ chat_memory = InitialMemory
    /\ bot_logs = EmptyBag
    /\ serial = Len(InitialMemory) + 1
    /\ ev = [e \in Events |-> Absent]
    /\ pc = [e \in Events |-> IF e \in arriving THEN "idle" ELSE "off"]
    /\ cutoff = [e \in Events |-> 0]
    /\ request = [e \in Events |-> Absent]
    /\ reply = [e \in Events |-> None]
    /\ pending = {}
    /\ trace = [e \in Events |-> <<>>]
    /\ fetched = [e \in Events |-> {}]
    /\ deleted = [e \in Events |-> {}]
    /\ outbox = [e \in Events |-> <<>>]
    /\ result = [e \in Events |-> <<>>]

Task ==
    \/ \E e \in Events, u \in Updates : Start(e, u)
    \/ \E e \in Events : StartReplied(e)
    \/ \E e \in Events, u \in Updates : OnText(e, u)
    \/ \E e \in Events : GroupSelected(e)
    \/ \E e \in Events : GroupInserted(e)
    \/ \E e \in Events : UserSelected(e)
    \/ \E e \in Events : UserInserted(e)
    \/ \E e \in Events : ContextFetched(e)
    \/ \E e \in Events, o \in ModelOutcomes : ModelSettled(e, o)
    \/ \E e \in Events, sentOk \in BOOLEAN : ReplySettled(e, sentOk)
    \/ \E r \in pending : StoreApplies(r)

\* Concurrent events within one day.
Init == Started(Events) /\ tb = NoRun
Next == Task
Spec == Init /\ [][Next]_vars

\* One event, while days pass.
InitClock == Started({1}) /\ tb = NoRun
NextClock == Task \/ Tick
SpecClock == InitClock /\ [][NextClock]_vars

\* Concurrent events, on the start day or after a night has passed.
Overnight == Tick /\ \A e \in Events : pc[e] = "idle"
NextNextDay == Task \/ Overnight
SpecNextDay == Init /\ [][NextNextDay]_vars

\* One event when every awaited call eventually settles, with a result or with
\* an error value: the suspended task of the event is resumed.
Resumes(e) ==
    \/ StartReplied(e)
    \/ GroupSelected(e)
    \/ GroupInserted(e)
    \/ UserSelected(e)
    \/ UserInserted(e)
    \/ ContextFetched(e)
    \/ \E o \in ModelOutcomes : ModelSettled(e, o)
    \/ \E sentOk \in BOOLEAN : ReplySettled(e, sentOk)
EveryCallSettles == \A e \in Events : WF_vars(Resumes(e))
SpecLive == InitClock /\ [][Next]_vars /\ EveryCallSettles

\* The transcript builder alone, on every short history.
Roles == {"user", "model"}
StoredTurns == [role : Roles, content : {"a", "b", "c"}]
Histories == UNION {[1..n -> StoredTurns] : n \in 0..MaxHist}
InitBuild ==
    /\ Started({})
    /\ ~supabase /\ ~model
    /\ tb \in [history : Histories, text : {"d"}, built : {FALSE}, out : {<<>>}]
NextBuild == Build
SpecBuild == InitBuild /\ [][NextBuild]_vars

\* ================================================================ claims
Arrived(e) == pc[e] \notin {"idle", "off"}
Has(tr, step) == \E i \in 1..Len(tr) : tr[i] = step
Count(tr, step) == Cardinality({i \in 1..Len(tr) : tr[i] = step})
\* every occurrence of step a in tr comes before every occurrence of step b
Before(tr, a, b) ==
    \A j \in 1..Len(tr) : tr[j] = b => \A i \in 1..Len(tr) : tr[i] = a => i < j

Alternates(contents) ==
    \A i \in 1..(Len(contents) - 1) : contents[i].role # contents[i + 1].role

\* C1: the contents of every generateContent request in flight has no two
\* adjacent entries with the same role, whatever history the store returned.
C1_Alternation ==
    \A e \in Events : pc[e] = "generate" => Alternates(request[e].contents)

\* C1 witness: a request is in flight whose fetched history held two
\* adjacent turns of one role, the later one written during the run (the
\* outbound turn of an event reached the store before its inbound turn).
C1_Witness ==
    \E e \in Events :
        /\ pc[e] = "generate"
        /\ \E i \in 1..(Len(chat_memory) - 1) :
              /\ {chat_memory[i].id, chat_memory[i + 1].id} \subseteq fetched[e]
              /\ chat_memory[i + 1].id > Len(InitialMemory)
              /\ chat_memory[i].user_id = chat_memory[i + 1].user_id
              /\ chat_memory[i].role = chat_memory[i + 1].role
        /\ Alternates(request[e].contents)

\* The run-grouping of a sequence of (role, content) records, defined from the
\* positions where the role changes.
RunStarts(s) == {i \in 1..Len(s) : i = 1 \/ s[i].role # s[i - 1].role}
RunEnd(s, i) ==
    CHOOSE j \in i..Len(s) :
        /\ \A k \in i..j : s[k].role = s[i].role
        /\ j = Len(s) \/ s[j + 1].role # s[i].role
NthStart(s, n) ==
    CHOOSE i \in RunStarts(s) : Cardinality({k \in RunStarts(s) : k < i}) = n - 1
RECURSIVE JoinContents(_, _, _)
JoinContents(s, i, j) ==
    IF i = j THEN s[i].content
    ELSE s[i].content \o "\n\n" \o JoinContents(s, i + 1, j)
RunGrouping(s) ==
    [n \in 1..Cardinality(RunStarts(s)) |->
        LET i == NthStart(s, n)
        IN [role |-> s[i].role, parts |-> <<[text |-> JoinContents(s, i, RunEnd(s, i))]>>]]

ExampleHistory ==
    <<[role |-> "user", content |-> "a"], [role |-> "user", content |-> "b"],
      [role |-> "model", content |-> "c"]>>
ExampleContents ==
    <<[role |-> "user", parts |-> <<[text |-> "a\n\nb"]>>],
      [role |-> "model", parts |-> <<[text |-> "c"]>>],
      [role |-> "user", parts |-> <<[text |-> "d"]>>]>>

\* C2: the transcript built from history h and text t is the run-grouping of h
\* followed by (user, t): one entry per maximal run of equal roles, the run's
\* contents joined by a blank line in order. Its last entry has role user and
\* ends with t; an empty history gives the single entry (user, t); a history
\* ending in a user turn gets t merged into the last entry; and the history
\* (user,a),(user,b),(model,c) with text d gives (user,a\n\nb),(model,c),(user,d).
C2_RunGrouping ==
    tb.built =>
        LET h == tb.history
            out == tb.out
            last == out[Len(out)]
        IN /\ out = RunGrouping(h \o <<[role |-> "user", content |-> tb.text]>>)
           /\ Len(out) >= 1
           /\ last.role = "user"
           /\ EndsWith(last.parts[1].text, tb.text)
           /\ h = <<>> => out = <<[role |-> "user", parts |-> <<[text |-> tb.text]>>]>>
           /\ (h # <<>> /\ h[Len(h)].role = "user") =>
                  /\ Len(out) = Len(RunGrouping(h))
                  /\ last.parts[1].text =
                         RunGrouping(h)[Len(out)].parts[1].text \o "\n\n" \o tb.text
           /\ (h = ExampleHistory /\ tb.text = "d") => out = ExampleContents

\* C2 witness: the builder has run on the example history and text.
C2_Witness ==
    /\ tb.built
    /\ tb.history = ExampleHistory
    /\ tb.text = "d"
    /\ tb.out = ExampleContents

PersistSteps == {"insert_user", "insert_model", "delete", "log"}
ReplySettledIn(tr) == Has(tr, "reply:done") \/ Has(tr, "reply:failed")

PassedGate(e) ==
    /\ Arrived(e)
    /\ ~IsStartCommand(ev[e])
    /\ ev[e].chat.type # "private"
    /\ ev[e].text # ""
    /\ (StartsWith(ToLowerCase(ev[e].text), "terminator") \/ ev[e].reply_to = BOT_ID)

\* C4: with the store configured and failing every call, every event that
\* passes the gate invokes the model (once, when the model is configured), and
\* the text the model returned is the text handed to ctx.reply, unchanged.
C4_PersistenceFailureIsolation ==
    (supabase /\ ~dbUp /\ model) =>
        \A e \in Events :
            PassedGate(e) =>
                /\ pc[e] \in {"deliver", "done"} => Len(result[e]) = 1
                /\ (Len(result[e]) = 1 /\ result[e][1].ok /\ result[e][1].text # "") =>
                       /\ outbox[e] = <<[kind |-> "reply", text |-> result[e][1].text]>>
                       /\ pc[e] = "done" => ReplySettledIn(trace[e])

\* C4 witness: the store fails every call, and in the opted-out group (whose
\* lookup failed too) the model's text was sent.
C4_Witness ==
    /\ supabase /\ ~dbUp
    /\ \E e \in Events :
          /\ pc[e] = "done"
          /\ ev[e].chat = GroupOptedOut
          /\ Has(trace[e], "reply:done")
          /\ outbox[e] = <<[kind |-> "reply", text |-> "Affirmative."]>>
          /\ chat_memory = InitialMemory /\ bot_logs = EmptyBag

\* The store holds a GroupConfig with ai_mode 0 for the chat of event e.
OptedOut(e) == \E r \in groups : r.group_id = ev[e].chat.id /\ r.ai_mode = 0

\* Event e did nothing beyond the typing action and the group lookup.
StoppedAtGroupLookup(e) ==
    /\ \A i \in 1..Len(trace[e]) :
          trace[e][i] \in {"typing", "group_select", "ack", "group_select:done"}
    /\ outbox[e] = <<>>
    /\ result[e] = <<>>
    /\ \A r \in pending : r.e # e

\* C5 as stated: every message from a group whose stored GroupConfig has
\* ai_mode 0 stops at the group lookup.
C5_OptOutAlways ==
    supabase => \A e \in Events : (Arrived(e) /\ OptedOut(e)) => StoppedAtGroupLookup(e)

\* C5 amended: when the group lookup returns the stored GroupConfig (the store
\* answers), a message from a group with ai_mode 0 stops at the group lookup:
\* no user lookup or insert, no context fetch, no model call, no reply, no
\* turn and no usage-log row.
C5_OptOutWhenLookupAnswers ==
    (supabase /\ dbUp) =>
        \A e \in Events : (Arrived(e) /\ OptedOut(e)) => StoppedAtGroupLookup(e)

\* C5 witness: a trigger text that replies to the bot, in the opted-out group,
\* ended after the lookup settled.
C5_Witness ==
    /\ supabase /\ dbUp
    /\ \E e \in Events :
          /\ pc[e] = "done"
          /\ OptedOut(e)
          /\ StartsWith(ToLowerCase(ev[e].text), "terminator")
          /\ ev[e].reply_to = BOT_ID
          /\ Has(trace[e], "group_select:done")

\* C6: the text handler sends no reply (and calls no model) for a message in a
\* private chat, nor for a group message whose lowercased text does not start
\* with "terminator" and that does not reply to this bot's own id. (The fixed
\* greeting bot.start sends for /start in a private chat is a different path.)
C6_TriggerGating ==
    \A e \in Events :
        (/\ Arrived(e)
         /\ \/ ev[e].chat.type = "private"
            \/ /\ ~StartsWith(ToLowerCase(ev[e].text), "terminator")
               /\ ev[e].reply_to # BOT_ID)
        => /\ \A i \in 1..Len(outbox[e]) : outbox[e][i].kind # "reply"
           /\ result[e] = <<>>
           /\ ~Has(trace[e], "typing")

\* C6 witness: a private trigger text replying to the bot, and a group text
\* without the prefix replying to another bot, both ended with nothing sent.
C6_Witness ==
    \E e, d \in Events :
        /\ pc[e] = "done" /\ pc[d] = "done"
        /\ ev[e].chat.type = "private" /\ ev[e].reply_to = BOT_ID
        /\ StartsWith(ToLowerCase(ev[e].text), "terminator")
        /\ ev[d].chat.type # "private" /\ ev[d].reply_to = OtherBot
        /\ ~StartsWith(ToLowerCase(ev[d].text), "terminator")
        /\ outbox[e] = <<>> /\ outbox[d] = <<>>

TurnsOf(user_id) ==
    {chat_memory[i] : i \in {k \in 1..Len(chat_memory) : chat_memory[k].user_id = user_id}}

\* C7: one cutoff per generateAIResponse call serves the history select and the
\* retention delete. The select returns the user's turns with created_at >=
\* cutoff, the delete removes the user's turns with created_at < cutoff; a
\* turn at the cutoff is fetched and stays, and no turn an event fetched is
\* removed by that event's delete.
C7_OneCutoff ==
    [][\A e \in Events :
          /\ pc[e] \in {"context", "generate"} /\ pc'[e] # "done" => cutoff'[e] = cutoff[e]
          /\ (pc[e] = "context" /\ pc'[e] = "generate" /\ dbUp) =>
                 /\ fetched'[e] =
                        {r.id : r \in {t \in TurnsOf(ev[e].from.id) : t.created_at >= cutoff[e]}}
                 /\ \A t \in TurnsOf(ev[e].from.id) :
                        (t.id \in fetched'[e]) # (t.created_at < cutoff[e])
          /\ deleted'[e] # deleted[e] =>
                 /\ deleted'[e] =
                        {r.id : r \in {t \in TurnsOf(ev[e].from.id) : t.created_at < cutoff[e]}}
                 /\ deleted'[e] \cap fetched[e] = {}
                 /\ \A t \in TurnsOf(ev[e].from.id) :
                        t.created_at = cutoff[e] =>
                            \E i \in 1..Len(chat_memory') : chat_memory'[i] = t
      ]_vars

\* C7 witness: an event fetched a turn created exactly at its cutoff, its
\* delete removed an older turn, and the turn at the cutoff is still stored.
C7_Witness ==
    \E e \in Events :
        /\ deleted[e] # {}
        /\ \E i \in 1..Len(chat_memory) :
              /\ chat_memory[i].id \in fetched[e]
              /\ chat_memory[i].created_at = cutoff[e]
              /\ chat_memory[i].user_id = ev[e].from.id

\* C8: when the store yields no data (no client, or the three selects all
\* fail), the request to the model carries the default persona, the default
\* user info and the single entry (user, new text), whatever earlier events
\* did and whatever the store holds.
C8_DefaultContext ==
    \A e \in Events :
        pc[e] = "generate" =>
            /\ request[e].got = {} <=> (~supabase \/ ~dbUp)
            /\ request[e].got = {} =>
                  /\ request[e].contents =
                         <<[role |-> "user", parts |-> <<[text |-> ev[e].text]>>]>>
                  /\ request[e].systemInstruction =
                         [tone |-> "cold", aggression_level |-> 5,
                          response_style |-> "military", custom_phrases |-> <<>>,
                          role |-> IF ev[e].from.id = OWNER_ID THEN "owner" ELSE "member",
                          risk_score |-> 0, status |-> "active"]

\* C8 witness: the store is configured, holds turns of the owner and fails; an
\* earlier event was answered, and the owner's request is in flight.
C8_Witness ==
    /\ supabase /\ ~dbUp
    /\ \E e, d \in Events :
          /\ d < e
          /\ pc[d] = "done" /\ Has(trace[d], "reply:done")
          /\ pc[e] = "generate"
          /\ ev[e].from.id = OWNER_ID
          /\ request[e].got = {}
          /\ TurnsOf(OWNER_ID) # {}

\* C9: a failed model invocation is caught: the model was invoked once, the
\* task goes on to ctx.reply with the diagnostic text that ends with the
\* failure reason, and ends normally. No invocation is repeated, and the
\* diagnostic text is sent only after a failed invocation: every other text
\* sent is what the model returned or the fixed offline reply.
C9_GenerationFailureSurfaced ==
    \A e \in Events :
        /\ Len(result[e]) <= 1
        /\ Count(trace[e], "generate") <= 1
        /\ Has(trace[e], "generate:failed") =>
              /\ Len(result[e]) = 1 /\ ~result[e][1].ok
              /\ Count(trace[e], "generate") = 1
              /\ pc[e] \in {"deliver", "done"}
              /\ outbox[e] =
                     <<[kind |-> "reply",
                        text |-> "Error processing query. My neural net is temporarily disrupted.\n\n[DEBUG REASON]: "
                                 \o result[e][1].text]>>
              /\ pc[e] = "done" => ReplySettledIn(trace[e])
        /\ \A i \in 1..Len(outbox[e]) :
              outbox[e][i].kind = "reply" =>
                  \/ /\ result[e] = <<>>
                     /\ outbox[e][i].text = "System Offline: AI core not initialized."
                  \/ /\ Len(result[e]) = 1 /\ result[e][1].ok
                     /\ outbox[e][i].text = result[e][1].text
                  \/ /\ Len(result[e]) = 1 /\ ~result[e][1].ok
                     /\ EndsWith(outbox[e][i].text, result[e][1].text)
                     /\ StartsWith(outbox[e][i].text, "Error processing query.")

\* C9 witness: the invocation failed, the diagnostic reply was sent and the
\* usage log row was written.
C9_Witness ==
    \E e \in Events :
        /\ pc[e] = "done"
        /\ Has(trace[e], "generate:failed")
        /\ Has(trace[e], "reply:done")
        /\ Has(trace[e], "log")
        /\ BagIn(LogRow(e), bot_logs)

SettledSteps ==
    {"group_select:done", "group_insert:done", "user_select:done", "user_insert:done",
     "context:done", "generate:done", "generate:failed", "reply:done", "reply:failed"}

\* C10: the text handler has returned to the transport as soon as the event
\* has arrived: its return comes before any awaited call of the event settles
\* (group and user lookups and inserts, context fetch, model invocation, reply
\* delivery), whatever other events are waiting for.
C10_AckNotBlocked ==
    \A e \in Events :
        (Arrived(e) /\ ~IsStartCommand(ev[e])) =>
            /\ Count(trace[e], "ack") = 1
            /\ \A i \in 1..Len(trace[e]) :
                  trace[e][i] = "ack" =>
                      \A j \in 1..(i - 1) : trace[e][j] \notin SettledSteps

\* C10 witness: two events have been acknowledged while one waits for the
\* model and the other for its context.
C10_Witness ==
    \E e, d \in Events :
        /\ pc[d] = "generate" /\ pc[e] = "context"
        /\ Has(trace[d], "ack") /\ Has(trace[e], "ack")
        /\ pending # {}

\* Event e went from its group or user insert on to the rest of the pipeline.
WentOn(e) ==
    LET tr == trace[e]
    IN /\ Has(tr, "group_insert:done") => Has(tr, "user_select")
       /\ Has(tr, "user_insert:done") => Has(tr, IF model THEN "context" ELSE "reply")
       /\ pc[e] = "done" =>
              /\ model => Has(tr, "context:done") /\ Len(result[e]) = 1
              /\ reply[e] # "" =>
                     /\ outbox[e] = <<[kind |-> "reply", text |-> reply[e]]>>
                     /\ ReplySettledIn(tr)

\* C11: an event that found the GroupConfig of its group (or the UserProfile
\* of its sender) absent and issued the insert is not aborted by the insert's
\* outcome, a refused duplicate included: it goes on to the user lookup, the
\* context fetch and the model, and its non-empty reply is handed to ctx.reply.
\* The store keeps one row per group and per user.
C11_DuplicateInsertTolerated ==
    /\ \A e \in Events :
           (Has(trace[e], "group_insert") \/ Has(trace[e], "user_insert")) => WentOn(e)
    /\ \A r, q \in groups : r.group_id = q.group_id => r = q
    /\ \A r, q \in users : r.user_id = q.user_id => r = q

\* C11 witness: two events both found the group and the sender absent, both
\* issued both inserts while the store answers, and both replies were sent.
C11_Witness ==
    /\ dbUp
    /\ \E e, d \in Events :
          /\ e # d
          /\ pc[e] = "done" /\ pc[d] = "done"
          /\ ev[e].chat = ev[d].chat /\ ev[e].from = ev[d].from
          /\ \A x \in {e, d} :
                /\ Has(trace[x], "group_insert:done") /\ Has(trace[x], "user_insert:done")
                /\ Has(trace[x], "reply:done")
                /\ Len(result[x]) = 1
          /\ Cardinality({r \in groups : r.group_id = ev[e].chat.id}) = 1
          /\ Cardinality({r \in users : r.user_id = ev[e].from.id}) = 1

\* C12: the role handed to generation (the role interpolated into the system
\* instruction of the request) is "owner" exactly when the sender's id is
\* OWNER_ID, and "member" for every other sender.
C12_RoleResolution ==
    \A e \in Events :
        pc[e] = "generate" =>
            LET role == request[e].systemInstruction.role
            IN /\ role = "owner" <=> ev[e].from.id = OWNER_ID
               /\ ev[e].from.id # OWNER_ID => role = "member"

\* C12 witness: a request of the owner and a request of another sender are in
\* flight, the first as owner and the second as member.
C12_Witness ==
    \E e, d \in Events :
        /\ pc[e] = "generate" /\ pc[d] = "generate"
        /\ ev[e].from.id = OWNER_ID /\ request[e].systemInstruction.role = "owner"
        /\ ev[d].from.id # OWNER_ID /\ request[d].systemInstruction.role = "member"

\* some occurrence of step a in tr comes before position j
SomeBefore(tr, a, j) == \E i \in 1..(j - 1) : tr[i] = a

\* C13: within one event, generateContent is not called until the three
\* selects of the context fetch have settled (with data or without), and
\* ctx.reply is not called until generateContent has returned or thrown. While
\* the context is awaited no model call was made, and while the model is
\* awaited nothing was sent.
C13_ContextGenerateDeliver ==
    \A e \in Events :
        LET tr == trace[e]
        IN /\ \A j \in 1..Len(tr) :
                  /\ (tr[j] = "generate" /\ supabase) =>
                         SomeBefore(tr, "context", j) /\ SomeBefore(tr, "context:done", j)
                  /\ (tr[j] = "reply" /\ model) =>
                         /\ SomeBefore(tr, "generate", j)
                         /\ SomeBefore(tr, "generate:done", j)
                                \/ SomeBefore(tr, "generate:failed", j)
           /\ pc[e] = "context" =>
                  ~Has(tr, "generate") /\ result[e] = <<>> /\ outbox[e] = <<>>
           /\ pc[e] = "generate" =>
                  /\ ~Has(tr, "reply") /\ result[e] = <<>> /\ outbox[e] = <<>>
                  /\ (supabase /\ dbUp) => {"memory", "persona"} \subseteq request[e].got
           /\ pc[e] = "deliver" /\ model => Len(result[e]) = 1

\* C13 witness: with the store configured, one event waits for ctx.reply after
\* its model call failed, and another one after its model call returned.
C13_Witness ==
    /\ supabase /\ model
    /\ \E e, d \in Events :
          /\ pc[e] = "deliver" /\ pc[d] = "deliver"
          /\ Has(trace[e], "context:done") /\ Has(trace[e], "generate:failed")
          /\ Has(trace[d], "context:done") /\ Has(trace[d], "generate:done")

\* The text handler turns update u away: a private chat, no text, or neither
\* the trigger prefix nor a reply to this bot.
Rejected(u) ==
    /\ ~StartsWith(u.text, "/start")
    /\ \/ u.chat.type = "private"
       \/ u.text = ""
       \/ ~StartsWith(ToLowerCase(u.text), "terminator") /\ u.reply_to # BOT_ID

\* C14: the step in which the text handler takes a message it rejects changes
\* nothing but the handler's return: no typing action and no other send, no
\* lookup or insert of a GroupConfig or UserProfile, no turn or usage-log row
\* written or deleted (none requested either), no model call; and nothing is
\* done for that event afterwards.
C14_RejectedLeavesNoTrace ==
    /\ [][\A e \in Events :
             (pc[e] = "idle" /\ pc'[e] # "idle" /\ Rejected(ev'[e])) =>
                 /\ pc'[e] = "done"
                 /\ trace'[e] = <<"ack">>
                 /\ UNCHANGED <<tables, pending, outbox, result, request, reply, fetched,
                                deleted, cutoff>>
         ]_vars
    /\ [](\A e \in Events :
             (Arrived(e) /\ Rejected(ev[e])) =>
                 /\ pc[e] = "done"
                 /\ trace[e] = <<"ack">>
                 /\ outbox[e] = <<>> /\ result[e] = <<>>
                 /\ fetched[e] = {} /\ deleted[e] = {}
                 /\ \A r \in pending : r.e # e)

\* C14 witness: a message without text that replies to this bot was turned
\* away in a group while another event of that group waits for the model with
\* its inbound turn not yet stored.
C14_Witness ==
    \E e, d \in Events :
        /\ pc[e] = "done" /\ pc[d] = "generate"
        /\ ev[e].text = "" /\ ev[e].reply_to = BOT_ID /\ ev[e].chat = ev[d].chat
        /\ trace[e] = <<"ack">>
        /\ \E r \in pending : r.e = d

\* C15: when ctx.reply of an event fails, the step that handles the failure
\* sends nothing again, removes no stored turn and cancels no turn still on
\* its way to the store, and issues the usage-log insert (the row is added
\* when the store answers); the event then ends. ctx.reply was called once
\* for the event, and is never called again.
C15_DeliveryFailureContained ==
    /\ [][\A e \in Events :
             (~Has(trace[e], "reply:failed") /\ Has(trace'[e], "reply:failed")) =>
                 /\ outbox'[e] = outbox[e]
                 /\ chat_memory' = chat_memory
                 /\ pending' = pending
                 /\ supabase => trace'[e][Len(trace'[e])] = "log"
                 /\ (supabase /\ dbUp) =>
                        CopiesIn(LogRow(e), bot_logs') = CopiesIn(LogRow(e), bot_logs) + 1
                 /\ pc'[e] = "done"
         ]_vars
    /\ [](\A e \in Events :
             Has(trace[e], "reply:failed") =>
                 /\ Count(trace[e], "reply") = 1
                 /\ Len(outbox[e]) = 1
                 /\ pc[e] = "done")
    /\ [][\A e \in Events :
             \A i \in 1..Len(chat_memory) :
                 (Has(trace[e], "reply:failed") /\ chat_memory[i].id > Len(InitialMemory)) =>
                     \E j \in 1..Len(chat_memory') : chat_memory'[j] = chat_memory[i]
         ]_vars

\* C15 witness: the reply of an event was not delivered; both turns of the
\* event are stored, and so is its usage log row.
C15_Witness ==
    \E e \in Events :
        /\ pc[e] = "done"
        /\ Has(trace[e], "reply:failed")
        /\ BagIn(LogRow(e), bot_logs)
        /\ \A r \in pending : r.e # e
        /\ \E i, j \in 1..Len(chat_memory) :
              /\ chat_memory[i].id > Len(InitialMemory)
              /\ chat_memory[j].id > Len(InitialMemory)
              /\ chat_memory[i].user_id = ev[e].from.id
              /\ chat_memory[i].role = "user" /\ chat_memory[i].content = ev[e].text
              /\ chat_memory[j].user_id = ev[e].from.id
              /\ chat_memory[j].role = "model" /\ chat_memory[j].content = reply[e]

\* The model returned `text` to an event of user `user_id`.
ReturnedByModel(user_id, text) ==
    \E e \in Events :
        /\ Len(result[e]) = 1
        /\ result[e][1].ok /\ result[e][1].text = text
        /\ ev[e].from.id = user_id

\* The turns of the run (stored, or on their way to the store) with role model.
ModelTurnsWritten ==
    {[user_id |-> chat_memory[i].user_id, content |-> chat_memory[i].content] :
        i \in {k \in 1..Len(chat_memory) :
                  chat_memory[k].id > Len(InitialMemory) /\ chat_memory[k].role = "model"}}
    \cup {[user_id |-> r.user_id, content |-> r.content] :
             r \in {q \in pending : q.op = "insert_model"}}

\* C16: every turn with role model written during the run holds the text a
\* successful model invocation returned for that user, never the diagnostic
\* reply nor the offline reply, although both are sent. An event whose
\* invocation failed has issued its inbound insert (the user turn is stored
\* once the store has handled it) and neither a model turn nor a retention
\* delete. With no model configured nothing is written at all.
C16_OnlyModelTextStored ==
    /\ \A t \in ModelTurnsWritten :
           /\ ReturnedByModel(t.user_id, t.content)
           /\ t.content # "System Offline: AI core not initialized."
           /\ ~StartsWith(t.content, "Error processing query.")
    /\ \A e \in Events :
           Has(trace[e], "generate:failed") =>
               /\ ~Has(trace[e], "insert_model") /\ ~Has(trace[e], "delete")
               /\ deleted[e] = {}
               /\ \A r \in pending : r.e = e => r.op = "insert_user"
               /\ supabase => Count(trace[e], "insert_user") = 1
               /\ (dbUp /\ \A r \in pending : r.e # e) =>
                      \E i \in 1..Len(chat_memory) :
                          /\ chat_memory[i].id > Len(InitialMemory)
                          /\ chat_memory[i].user_id = ev[e].from.id
                          /\ chat_memory[i].role = "user"
                          /\ chat_memory[i].content = ev[e].text
               /\ StartsWith(reply[e], "Error processing query.")
    /\ ~model => chat_memory = InitialMemory /\ pending = {}

\* C16 witness: an invocation failed and the diagnostic reply was sent; the
\* sender's stream has gained exactly the inbound turn.
C16_Witness ==
    /\ dbUp
    /\ \E e \in Events :
          /\ pc[e] = "done"
          /\ Has(trace[e], "generate:failed") /\ Has(trace[e], "reply:done")
          /\ pending = {}
          /\ \E i \in 1..Len(chat_memory) :
                /\ chat_memory[i].user_id = ev[e].from.id
                /\ chat_memory[i].role = "user" /\ chat_memory[i].content = ev[e].text
                /\ \A j \in 1..Len(chat_memory) :
                       (chat_memory[j].id > Len(InitialMemory)
                        /\ chat_memory[j].user_id = ev[e].from.id) => j = i

\* The transcript made of the stored turns with an id in `ids`, in stored
\* order, and the new text: their run-grouping.
TranscriptOf(ids, text) ==
    RunGrouping(SelectSeq(chat_memory, LAMBDA r : r.id \in ids)
                \o <<[role |-> "user", content |-> text]>>)

OwnIds(user_id) == {t.id : t \in TurnsOf(user_id)}

\* C17: memory is kept per user under every interleaving. The transcript an
\* event of sender U submits is made of turns stored under U's user_id and the
\* event's text, and of nothing else; every turn an event sends to the store,
\* and every row the store adds, carries the user_id of the sender of the
\* event that wrote it; and a step that removes rows is the retention delete
\* of an event and removes rows of that event's sender only.
C17_MemoryPerUser ==
    /\ [][\A e \in Events :
             (pc[e] = "context" /\ pc'[e] = "generate") =>
                 /\ fetched'[e] \subseteq OwnIds(ev[e].from.id)
                 /\ request'[e].contents = TranscriptOf(fetched'[e], ev[e].text)
         ]_vars
    /\ [](\A r \in pending : r.user_id = ev[r.e].from.id)
    /\ [][Len(chat_memory') > Len(chat_memory) =>
             \E r \in pending \ pending' :
                 /\ chat_memory' = Append(chat_memory, chat_memory'[Len(chat_memory')])
                 /\ chat_memory'[Len(chat_memory')].user_id = ev[r.e].from.id
                 /\ chat_memory'[Len(chat_memory')].content = r.content
         ]_vars
    /\ [][Ids(chat_memory) \ Ids(chat_memory') # {} =>
             \E r \in pending \ pending' :
                 /\ r.op = "delete"
                 /\ Ids(chat_memory) \ Ids(chat_memory') \subseteq OwnIds(ev[r.e].from.id)
                 /\ deleted'[r.e] = Ids(chat_memory) \ Ids(chat_memory')
         ]_vars

\* C17 witness: the store holds a turn of the owner older than the cutoff and
\* turns of the owner inside the window; an event of another sender has
\* stored its inbound turn, fetched nothing of the owner's, had its model
\* turn stored and its retention delete handled, and the owner's turns are
\* all still there, while an event of the owner is waiting for its context.
C17_Witness ==
    \E e, d \in Events :
        /\ pc[e] = "done" /\ pc[d] = "context"
        /\ ev[e].from.id # OWNER_ID /\ ev[d].from.id = OWNER_ID
        /\ Has(trace[e], "delete") /\ \A r \in pending : r.e # e
        /\ dbUp
        /\ fetched[e] = {}
        /\ \E i \in 1..Len(chat_memory) :
              chat_memory[i].user_id = OWNER_ID /\ chat_memory[i].created_at < cutoff[e]
        /\ OwnIds(OWNER_ID) = Ids(InitialMemory)
        /\ Cardinality(OwnIds(ev[e].from.id)) = 2

\* ctx.reply was called for event e.
ReplyAttempted(e) == Has(trace[e], "reply")

\* C18 as stated: every event that passes the gate in a group that is not
\* opted out eventually has ctx.reply called, and called once.
C18_ReplyAlwaysAttempted ==
    /\ \A e \in Events : (PassedGate(e) /\ ~OptedOut(e)) ~> ReplyAttempted(e)
    /\ [](\A e \in Events : Count(trace[e], "reply") <= 1)

\* C18 amended: when every awaited call settles, every event that passes the
\* gate in a group that is not opted out eventually either has ctx.reply
\* called or has ended because the text to reply with is empty (the model
\* returned no text); ctx.reply is called at most once per event, and exactly
\* once for an ended event whose text is not empty.
C18_ReplyAttemptedUnlessEmpty ==
    /\ \A e \in Events :
           (PassedGate(e) /\ ~OptedOut(e)) ~>
               (ReplyAttempted(e) \/ (pc[e] = "done" /\ reply[e] = ""))
    /\ [](\A e \in Events :
             /\ Count(trace[e], "reply") <= 1 /\ Len(outbox[e]) <= 1
             /\ (PassedGate(e) /\ ~OptedOut(e) /\ pc[e] = "done" /\ reply[e] # "") =>
                    Count(trace[e], "reply") = 1
             /\ (pc[e] = "done" /\ reply[e] = "") =>
                    (~ReplyAttempted(e) /\ Len(result[e]) = 1 /\ result[e][1].ok))

\* C18 witness: the event has ended with ctx.reply called once, although
\* every store call failed and the model call failed too.
C18_Witness ==
    \E e \in Events :
        /\ pc[e] = "done"
        /\ PassedGate(e) /\ ~OptedOut(e)
        /\ supabase /\ ~dbUp
        /\ Len(result[e]) = 1 /\ ~result[e][1].ok
        /\ Count(trace[e], "reply") = 1 /\ ReplySettledIn(trace[e])

\* C19: within one event the history select has settled before the event's
\* inbound insert is sent to the store: while the context is awaited nothing
\* of the event is on its way to the store, the insert is sent in the step
\* that takes the history, and the row the store then adds has an id the
\* history did not hold. The transcript is the fetched history with the
\* event's text added once.
C19_OwnTurnNotInSnapshot ==
    /\ [](\A e \in Events :
             /\ pc[e] = "context" =>
                    /\ \A r \in pending : r.e # e
                    /\ ~Has(trace[e], "insert_user")
                    /\ fetched[e] = {}
             /\ Count(trace[e], "insert_user") <= 1
             /\ Before(trace[e], "context:done", "insert_user")
             /\ \A id \in fetched[e] : id < serial)
    /\ [][\A e \in Events :
             (pc[e] = "context" /\ pc'[e] = "generate") =>
                 /\ fetched'[e] \subseteq Ids(chat_memory)
                 /\ pending' \ pending =
                        {[e |-> e, op |-> "insert_user", user_id |-> ev[e].from.id,
                          role |-> "user", content |-> ev[e].text]}
                 /\ request'[e].contents = TranscriptOf(fetched'[e], ev[e].text)
         ]_vars
    /\ [][\A r \in pending \ pending' :
             (r.op = "insert_user" /\ dbUp) =>
                 /\ chat_memory'[Len(chat_memory')].id = serial
                 /\ chat_memory'[Len(chat_memory')].content = r.content
                 /\ serial \notin fetched[r.e]
         ]_vars

\* C19 witness: two events of one user wait for the model; the inbound turn of
\* the first is stored, is not in the history the first fetched, and is in
\* the history the second fetched.
C19_Witness ==
    \E e, d \in Events :
        /\ pc[e] = "generate" /\ pc[d] = "generate"
        /\ ev[e].from.id = ev[d].from.id
        /\ fetched[e] # {}
        /\ \E i \in 1..Len(chat_memory) :
              /\ chat_memory[i].id > Len(InitialMemory)
              /\ chat_memory[i].role = "user"
              /\ chat_memory[i].content = ev[e].text
              /\ chat_memory[i].id \notin fetched[e]
              /\ chat_memory[i].id \in fetched[d]
        /\ \A r \in pending : r.e # e

\* C20 as stated: an event for which the typing action was sent has ctx.reply
\* called by the time it ends, and no typing action is sent for a message in
\* a group whose stored GroupConfig has ai_mode 0 (the store being configured
\* and answering its lookups).
C20_TypingOnlyBeforeReply ==
    \A e \in Events :
        /\ (pc[e] = "done" /\ Has(trace[e], "typing")) => Has(trace[e], "reply")
        /\ (supabase /\ dbUp /\ Arrived(e) /\ OptedOut(e)) => ~Has(trace[e], "typing")

====
